---- MODULE Spec2Model ----
(***************************************************************************)
(* The note state engine of src/notes_frontend/src/routes/+page.ts: the    *)
(* in-memory notes collection, the selection, the derived view and the     *)
(* localStorage persistence, as one state machine.                         *)
(*                                                                         *)
(* JavaScript values are records with a type tag t:                        *)
(*   undefined, null, NaN        [t, s, n]   (s, n unused)                 *)
(*   string                      [t, s, n]   s = sequence of char codes    *)
(*   number, boolean             [t, s, n]   n = the number, 1/0 for a     *)
(*                                           boolean                       *)
(*   object                      [t, o]      o = function key -> value;    *)
(*                                           an absent key is absent from  *)
(*                                           DOMAIN o                      *)
(*   array                       [t, a]      a = sequence of values        *)
(* The variable notes holds the items of the notes array.                  *)
(*                                                                         *)
(* Spec follows one tab. TwoTabs follows two tabs of one browser that      *)
(* share localStorage: the component variables hold the tab whose handler  *)
(* runs next, peer holds the other tab.                                    *)
(***************************************************************************)
EXTENDS Integers, Sequences, FiniteSets, TLC

VARIABLES
    browser,         \* $app/environment 'browser': FALSE while prerendering
    phase,           \* "unmounted", "ready", or "crashed" (uncaught exception)
    storage,         \* localStorage's value under STORAGE_KEY
    notes,           \* let notes: Note[]
    selectedId,      \* let selectedId: string | null
    query,           \* let query
    sortBy,          \* let sortBy
    showPinnedOnly,  \* let showPinnedOnly
    filtered,        \* $: filtered, as last computed
    now,             \* the latest value Date.now() has returned
    nextId,          \* how many ids crypto.randomUUID() has issued, plus one
    events,          \* how many DOM events the handlers have been run for
    last,            \* observation of the last step: the handler that ran,
                     \* the id it aimed at, the index it found, the number
                     \* of localStorage.setItem calls it made, whether it
                     \* ended in an uncaught exception, and the collection
                     \* it started from
    peer             \* the component state of the other tab, if there is one

vars == <<browser, phase, storage, notes, selectedId, query, sortBy,
          showPinnedOnly, filtered, now, nextId, events, last, peer>>

-----------------------------------------------------------------------------
(* Bounds *)

\* a session handles at most MaxEvents DOM events
MaxEvents == 2

-----------------------------------------------------------------------------
(* JavaScript values *)

Prim(t, s, n) == [t |-> t, s |-> s, n |-> n]
Undefined == Prim("undefined", <<>>, 0)
Null == Prim("null", <<>>, 0)
NaN == Prim("NaN", <<>>, 0)
Str(s) == Prim("string", s, 0)
Num(n) == Prim("number", <<>>, n)
Bool(b) == Prim("boolean", <<>>, IF b THEN 1 ELSE 0)
Obj(o) == [t |-> "object", o |-> o]
Arr(a) == [t |-> "array", a |-> a]

IsString(v) == v.t = "string"
IsNullish(v) == v.t \in {"undefined", "null"}

\* v has an own property key
Has(v, key) == v.t = "object" /\ key \in DOMAIN v.o

\* v.key ; reading a property of undefined or null raises a TypeError,
\* which the callers decide with GetThrows before they read
GetThrows(v) == IsNullish(v)
Get(v, key) == IF Has(v, key) THEN v.o[key] ELSE Undefined

\* v?.key
OptGet(v, key) == IF IsNullish(v) THEN Undefined ELSE Get(v, key)

\* a ?? b
Coalesce(a, b) == IF IsNullish(a) THEN b ELSE a

\* ToBoolean(v): !v is ~Truthy(v)
Truthy(v) ==
    CASE v.t \in {"undefined", "null", "NaN"} -> FALSE
      [] v.t = "string" -> v.s # <<>>
      [] v.t \in {"number", "boolean"} -> v.n # 0
      [] OTHER -> TRUE

\* a === b on the values of the model (NaN === NaN is false)
StrictEq(a, b) == a.t # "NaN" /\ a = b

\* Number(v) for the values a note field can hold; a non-empty string of
\* the model's alphabet that starts with a letter is not numeric
ToNumber(v) ==
    CASE v.t \in {"number", "boolean"} -> Num(v.n)
      [] v.t = "null" -> Num(0)
      [] v.t = "string" /\ v.s = <<>> -> Num(0)
      [] OTHER -> NaN

\* a - b
Minus(a, b) ==
    LET x == ToNumber(a)
        y == ToNumber(b)
    IN  IF x.t = "NaN" \/ y.t = "NaN" THEN NaN ELSE Num(x.n - y.n)

\* a || b
OrElse(a, b) == IF Truthy(a) THEN a ELSE b

\* items[i] of a JavaScript array, i counted from 0; out of range is undefined
At(items, i) == IF i >= 0 /\ i < Len(items) THEN items[i + 1] ELSE Undefined

-----------------------------------------------------------------------------
(* Strings: sequences of char codes over letters, digits and the space *)

Space == {32}
ToLowerChar(c) == IF c >= 65 /\ c <= 90 THEN c + 32 ELSE c
ToLowerCase(s) == [i \in 1..Len(s) |-> ToLowerChar(s[i])]

RECURSIVE TrimStart(_)
TrimStart(s) ==
    IF s # <<>> /\ Head(s) \in Space THEN TrimStart(Tail(s)) ELSE s

RECURSIVE TrimEnd(_)
TrimEnd(s) ==
    IF s # <<>> /\ s[Len(s)] \in Space
    THEN TrimEnd(SubSeq(s, 1, Len(s) - 1))
    ELSE s

Trim(s) == TrimEnd(TrimStart(s))

\* s.includes(q)
Includes(s, q) ==
    \E i \in 0..(Len(s) - Len(q)) : SubSeq(s, i + 1, i + Len(q)) = q

\* String(v) as Intl.Collator.prototype.compare applies it to its arguments
ToStringSeq(v) ==
    CASE v.t = "string" -> v.s
      [] v.t = "undefined" -> <<117, 110, 100, 101, 102, 105, 110, 101, 100>>
      [] v.t = "null" -> <<110, 117, 108, 108>>

\* primary collation weight: the space before the digits before the
\* letters, a letter's case ignored (sensitivity: 'base')
Weight(c) ==
    IF c \in Space THEN 0
    ELSE IF c >= 48 /\ c <= 57 THEN 1 + (c - 48)
    ELSE 11 + (ToLowerChar(c) - 97)

RECURSIVE CollatorCompare(_, _)
CollatorCompare(x, y) ==
    IF x = <<>> /\ y = <<>> THEN 0
    ELSE IF x = <<>> THEN -1
    ELSE IF y = <<>> THEN 1
    ELSE IF Weight(Head(x)) < Weight(Head(y)) THEN -1
    ELSE IF Weight(Head(x)) > Weight(Head(y)) THEN 1
    ELSE CollatorCompare(Tail(x), Tail(y))

-----------------------------------------------------------------------------
(* JSON texts.  A text is kept as the document it spells: a scalar token,  *)
(* an object with its members in the order they are written, or an array   *)
(* of such documents.  JSONstringify writes a document from a value and    *)
(* JSONparse builds a value from a document.                               *)

JNull == [j |-> "null"]
JBool(b) == [j |-> IF b THEN "true" ELSE "false"]
JNum(n) == [j |-> "number", n |-> n]
JStr(s) == [j |-> "string", s |-> s]
JObj(members) == [j |-> "object", members |-> members]
JArr(items) == [j |-> "array", items |-> items]

\* the order in which the members of a note are written
KeyOrder ==
    <<"id", "title", "content", "createdAt", "updatedAt", "pinned", "color">>

\* SerializeJSONProperty on a primitive; NaN is written as null
SerializePrim(v) ==
    CASE v.t = "string" -> JStr(v.s)
      [] v.t = "number" -> JNum(v.n)
      [] v.t = "boolean" -> JBool(v.n = 1)
      [] OTHER -> JNull

\* SerializeObject with a slip: a member whose value is null is not
\* written either
SerializeObjectSkipsNull(v) ==
    LET Written(k) == k \in DOMAIN v.o /\ ~IsNullish(v.o[k])
        keys == SelectSeq(KeyOrder, Written)
    IN  JObj([i \in 1..Len(keys) |-> <<keys[i], SerializePrim(v.o[keys[i]])>>])

\* SerializeJSONObject: a member whose value is undefined is not written
SerializeObject(v) ==
    LET Written(k) == k \in DOMAIN v.o /\ v.o[k].t # "undefined"
        keys == SelectSeq(KeyOrder, Written)
    IN  JObj([i \in 1..Len(keys) |-> <<keys[i], SerializePrim(v.o[keys[i]])>>])

\* SerializeJSONArray: an undefined element is written as null
SerializeElement(v) ==
    IF v.t = "object" THEN SerializeObject(v) ELSE SerializePrim(v)

\* JSON.stringify(items) for an array of primitives and flat objects
JSONstringify(items) ==
    JArr([i \in 1..Len(items) |-> SerializeElement(items[i])])

ParseScalar(d) ==
    CASE d.j = "null" -> Null
      [] d.j = "true" -> Bool(TRUE)
      [] d.j = "false" -> Bool(FALSE)
      [] d.j = "number" -> Num(d.n)
      [] d.j = "string" -> Str(d.s)

\* an object from its members; of two members with one key the later wins
ParseObject(d) ==
    LET m == d.members
        keys == {m[i][1] : i \in 1..Len(m)}
        LastOf(k) == CHOOSE i \in 1..Len(m) :
                        /\ m[i][1] = k
                        /\ \A j \in (i + 1)..Len(m) : m[j][1] # k
    IN  Obj([k \in keys |-> ParseScalar(m[LastOf(k)][2])])

ParseElement(d) == IF d.j = "object" THEN ParseObject(d) ELSE ParseScalar(d)

\* JSON.parse of a text that is valid JSON
JSONparse(d) ==
    IF d.j = "array"
    THEN Arr([i \in 1..Len(d.items) |-> ParseElement(d.items[i])])
    ELSE ParseElement(d)

-----------------------------------------------------------------------------
(* localStorage under STORAGE_KEY *)

\* getItem returns null: the key was never written
NoItem == [kind |-> "absent"]
\* the empty string
EmptyText == [kind |-> "empty"]
\* a non-empty string that is not JSON: JSON.parse raises a SyntaxError
GarbageText == [kind |-> "garbage"]
\* a JSON text
JsonText(d) == [kind |-> "json", doc |-> d]

\* loadNotes(): the items of the array it returns
loadNotes(isBrowser, stored) ==
    IF ~isBrowser THEN <<>>
    ELSE IF stored.kind \in {"absent", "empty"} THEN <<>>
    ELSE IF stored.kind = "garbage" THEN <<>>
    ELSE LET parsed == JSONparse(stored.doc)
         IN  IF parsed.t = "array" THEN parsed.a ELSE <<>>

\* saveNotes(items): the stored value afterwards
saveNotes(isBrowser, stored, items) ==
    IF ~isBrowser THEN stored ELSE JsonText(JSONstringify(items))

\* the number of localStorage.setItem calls one saveNotes call makes
setItemCalls(isBrowser) == IF isBrowser THEN 1 ELSE 0

-----------------------------------------------------------------------------
(* Notes *)

\* 'Untitled'
Untitled == <<85, 110, 116, 105, 116, 108, 101, 100>>

\* crypto.randomUUID(): the k-th id issued, "u1", "u2", ...; no stored note
\* carries such an id
randomUUID(k) == Str(<<117, 48 + k>>)

\* newNote with a slip: the optional pinned is left out of the literal
newNoteWithoutPinned(id, ts) ==
    Obj([id |-> id,
         title |-> Str(Untitled),
         content |-> Str(<<>>),
         createdAt |-> Num(ts),
         updatedAt |-> Num(ts),
         color |-> Null])

\* the object literal of createNote
newNote(id, ts) ==
    Obj([id |-> id,
         title |-> Str(Untitled),
         content |-> Str(<<>>),
         createdAt |-> Num(ts),
         updatedAt |-> Num(ts),
         pinned |-> Bool(FALSE),
         color |-> Null])

\* prepend with a slip: [...notes, note]
appendInstead(note, items) == items \o <<note>>

\* [note, ...notes]
prepend(note, items) == <<note>> \o items

\* { ...a, ...b } on the property maps of two objects
Merge(a, b) ==
    [k \in DOMAIN a \cup DOMAIN b |-> IF k \in DOMAIN b THEN b[k] ELSE a[k]]

\* the own properties { ...n } copies: none for a number
Spread(n) == IF n.t = "object" THEN n.o ELSE [k \in {} |-> Undefined]

\* patchNote with a slip: { id: n.id, ...partial, updatedAt: Date.now() },
\* the spread of n forgotten
patchNoteWithoutSpread(n, partial, ts) ==
    Obj(Merge(Merge([id |-> Get(n, "id")], partial), [updatedAt |-> Num(ts)]))

\* { ...n, ...partial, updatedAt: Date.now() }
patchNote(n, partial, ts) ==
    Obj(Merge(Merge(Spread(n), partial), [updatedAt |-> Num(ts)]))

\* pinNote with a slip: { ...n, pinned: true, updatedAt: Date.now() }
pinNoteAlwaysTrue(n, ts) ==
    Obj(Merge(Spread(n), [pinned |-> Bool(TRUE), updatedAt |-> Num(ts)]))

\* { ...n, pinned: !n.pinned, updatedAt: Date.now() }
pinNote(n, ts) ==
    Obj(Merge(Spread(n), [pinned |-> Bool(~Truthy(Get(n, "pinned"))),
                          updatedAt |-> Num(ts)]))

\* colorNote with a slip: { ...n, color, createdAt: Date.now() }
colorNoteStampsCreated(n, color, ts) ==
    Obj(Merge(Spread(n), [color |-> color, createdAt |-> Num(ts)]))

\* { ...n, color, updatedAt: Date.now() }
colorNote(n, color, ts) ==
    Obj(Merge(Spread(n), [color |-> color, updatedAt |-> Num(ts)]))

\* n.id === id
hasId(n, id) == StrictEq(Get(n, "id"), id)

\* updateNotes with a slip: the updated notes are moved to the front,
\* [...notes.filter(hit).map(patch), ...notes.filter(miss)]
updateNotesToFront(items, id, partial, ts) ==
    LET Hit(n) == hasId(n, id)
        Miss(n) == ~hasId(n, id)
        hits == SelectSeq(items, Hit)
    IN  [i \in 1..Len(hits) |-> patchNote(hits[i], partial, ts)]
            \o SelectSeq(items, Miss)

\* notes.map(n => n.id === selectedId ? {...} : n) of updateSelected
updateNotes(items, id, partial, ts) ==
    [i \in 1..Len(items) |->
        IF hasId(items[i], id) THEN patchNote(items[i], partial, ts)
        ELSE items[i]]

\* notes.map(n => n.id === targetId ? {...} : n) of togglePin
pinNotes(items, id, ts) ==
    [i \in 1..Len(items) |->
        IF hasId(items[i], id) THEN pinNote(items[i], ts) ELSE items[i]]

\* notes.map(n => n.id === selectedId ? {...} : n) of setColor
colorNotes(items, id, color, ts) ==
    [i \in 1..Len(items) |->
        IF hasId(items[i], id) THEN colorNote(items[i], color, ts)
        ELSE items[i]]

\* notes.findIndex(n => n.id === selectedId), counted from 0, or -1
findIndex(items, id) ==
    IF \E i \in 1..Len(items) : hasId(items[i], id)
    THEN (CHOOSE i \in 1..Len(items) :
             /\ hasId(items[i], id)
             /\ \A j \in 1..(i - 1) : ~hasId(items[j], id)) - 1
    ELSE -1

\* splice with a slip: next.splice(idx), the count forgotten, removes
\* every element from idx on
spliceToEnd(items, idx) == SubSeq(items, 1, idx)

\* next = [...notes]; next.splice(idx, 1)
splice(items, idx) ==
    SubSeq(items, 1, idx) \o SubSeq(items, idx + 2, Len(items))

\* reselect with a slip: notes[idx - 1]?.id ?? notes[idx]?.id ?? null
reselectPreviousFirst(items, idx) ==
    Coalesce(Coalesce(OptGet(At(items, idx - 1), "id"),
                      OptGet(At(items, idx), "id")),
             Null)

\* notes[idx]?.id ?? notes[idx - 1]?.id ?? null
reselect(items, idx) ==
    Coalesce(Coalesce(OptGet(At(items, idx), "id"),
                      OptGet(At(items, idx - 1), "id")),
             Null)

\* pinTarget with a slip: selectedId ?? id
pinTargetSelectedFirst(id, sel) == Coalesce(sel, id)

\* id ?? selectedId
pinTarget(id, sel) == Coalesce(id, sel)

\* a value of type Note: id, title and content strings, createdAt and
\* updatedAt numbers, pinned (when present) a boolean, color (when present)
\* a string or null
IsNote(v) ==
    /\ v.t = "object"
    /\ DOMAIN v.o \subseteq {KeyOrder[i] : i \in 1..Len(KeyOrder)}
    /\ {"id", "title", "content", "createdAt", "updatedAt"} \subseteq DOMAIN v.o
    /\ \A k \in {"id", "title", "content"} : v.o[k].t = "string"
    /\ \A k \in {"createdAt", "updatedAt"} : v.o[k].t = "number"
    /\ "pinned" \in DOMAIN v.o => v.o["pinned"].t = "boolean"
    /\ "color" \in DOMAIN v.o => v.o["color"].t \in {"string", "null"}

\* notes.length ? notes[0].id : null
firstId(items) == IF Len(items) # 0 THEN Get(items[1], "id") ELSE Null

\* notes.find((n) => n.id === selectedId) ?? null
selected ==
    IF findIndex(notes, selectedId) = -1 THEN Null
    ELSE notes[findIndex(notes, selectedId) + 1]

-----------------------------------------------------------------------------
(* Filtering and sorting *)

\* normalize with a slip: s.toLowerCase(), the trim forgotten
normalizeWithoutTrim(s) == ToLowerCase(s)

\* normalize(s) on the characters of a string
normalize(s) == Trim(ToLowerCase(s))

\* matches(n, q) raises a TypeError: n.title of a null, or toLowerCase of
\* a title or content that is no string
matchesThrows(n, q) ==
    /\ Truthy(q)
    /\ \/ GetThrows(n)
       \/ ~IsString(Get(n, "title"))
       \/ ~IsString(Get(n, "content"))

matches(n, q) ==
    IF ~Truthy(q) THEN TRUE
    ELSE LET t == normalize(Get(n, "title").s)
             c == normalize(Get(n, "content").s)
             qq == normalize(q.s)
         IN  Includes(t, qq) \/ Includes(c, qq)

\* the predicate of notes.filter in $: filtered
keeps(n, q, pinnedOnly) ==
    matches(n, q) /\ (~pinnedOnly \/ Truthy(Get(n, "pinned")))

\* the comparators of sorted(), by sort mode
compare(a, b, mode) ==
    LET byPin == Minus(ToNumber(Get(b, "pinned")), ToNumber(Get(a, "pinned")))
    IN  CASE mode = "updated" ->
               OrElse(byPin, Minus(Get(b, "updatedAt"), Get(a, "updatedAt")))
          [] mode = "created" ->
               OrElse(byPin, Minus(Get(b, "createdAt"), Get(a, "createdAt")))
          [] OTHER ->
               OrElse(byPin, Num(CollatorCompare(ToStringSeq(Get(a, "title")),
                                                 ToStringSeq(Get(b, "title")))))

\* what Array.prototype.sort makes of the comparator's result: its sign,
\* NaN counting as +0
order(a, b, mode) ==
    LET v == ToNumber(compare(a, b, mode))
    IN  IF v.t = "NaN" \/ v.n = 0 THEN 0 ELSE IF v.n < 0 THEN -1 ELSE 1

\* ECMA-262 Array.prototype.sort: the comparator is consistent on the
\* elements of the list
consistent(list, mode) ==
    LET S == {list[i] : i \in 1..Len(list)}
    IN  /\ \A a \in S : order(a, a, mode) = 0
        /\ \A a, b \in S : order(a, b, mode) = 0 => order(b, a, mode) = 0
        /\ \A a, b, c \in S :
              /\ (order(a, b, mode) = 0 /\ order(b, c, mode) = 0)
                    => order(a, c, mode) = 0
              /\ (order(a, b, mode) < 0 /\ order(b, c, mode) < 0)
                    => order(a, c, mode) < 0
              /\ (order(a, b, mode) > 0 /\ order(b, c, mode) > 0)
                    => order(a, c, mode) > 0

\* x put into a sorted list behind every element that does not sort after it
insert(x, list, mode) ==
    LET k == Cardinality({i \in 1..Len(list) : order(list[i], x, mode) <= 0})
    IN  SubSeq(list, 1, k) \o <<x>> \o SubSeq(list, k + 1, Len(list))

\* the stable sort of a list under a consistent comparator
RECURSIVE stableSort(_, _)
stableSort(list, mode) ==
    IF list = <<>> THEN <<>>
    ELSE insert(list[Len(list)],
                stableSort(SubSeq(list, 1, Len(list) - 1), mode), mode)

permutations(list) ==
    LET n == Len(list)
        P == {p \in [1..n -> 1..n] : \A i, j \in 1..n : p[i] = p[j] => i = j}
    IN  {[i \in 1..n |-> list[p[i]]] : p \in P}

\* sorted(list): the sequences data.sort may leave. Under a consistent
\* comparator that is the stable sort; under any other the order is
\* implementation-defined, and every arrangement of the list is possible
sorted(list, mode) ==
    IF consistent(list, mode) THEN {stableSort(list, mode)}
    ELSE permutations(list)

\* notes.filter((n) => matches(n, query) && (!showPinnedOnly || n.pinned))
filterNotes(items, q, pinnedOnly) ==
    LET Keep(n) == keeps(n, q, pinnedOnly)
    IN  SelectSeq(items, Keep)

\* computing $: filtered raises a TypeError: in matches, or in the
\* comparator when it reads a property of a null element
filteredThrows(items, q, pinnedOnly) ==
    \/ \E i \in 1..Len(items) : matchesThrows(items[i], q)
    \/ /\ \E i \in 1..Len(items) : GetThrows(items[i])
       /\ pinnedOnly \/ Len(items) > 1

-----------------------------------------------------------------------------
(* Inputs *)

\* { id: "a", title: "b", content: "", createdAt: 1, updatedAt: 1,
\*   pinned: true, color: null }
StoredA ==
    JObj(<< <<"id", JStr(<<97>>)>>, <<"title", JStr(<<98>>)>>,
            <<"content", JStr(<<>>)>>, <<"createdAt", JNum(1)>>,
            <<"updatedAt", JNum(1)>>, <<"pinned", JBool(TRUE)>>,
            <<"color", JNull>> >>)

\* { id: "b", title: "A", content: "a b", createdAt: 1, updatedAt: 2 }:
\* the optional pinned and color are absent
StoredB ==
    JObj(<< <<"id", JStr(<<98>>)>>, <<"title", JStr(<<65>>)>>,
            <<"content", JStr(<<97, 32, 98>>)>>, <<"createdAt", JNum(1)>>,
            <<"updatedAt", JNum(2)>> >>)

\* { id: "c", title: "a", content: "", createdAt: 2, updatedAt: 2,
\*   pinned: false, color: "c" }
StoredC ==
    JObj(<< <<"id", JStr(<<99>>)>>, <<"title", JStr(<<97>>)>>,
            <<"content", JStr(<<>>)>>, <<"createdAt", JNum(2)>>,
            <<"updatedAt", JNum(2)>>, <<"pinned", JBool(FALSE)>>,
            <<"color", JStr(<<99>>)>> >>)

\* { id: "d", title: "A", content: "a b", createdAt: 1, updatedAt: 2,
\*   pinned: false, color: null }
StoredD ==
    JObj(<< <<"id", JStr(<<100>>)>>, <<"title", JStr(<<65>>)>>,
            <<"content", JStr(<<97, 32, 98>>)>>, <<"createdAt", JNum(1)>>,
            <<"updatedAt", JNum(2)>>, <<"pinned", JBool(FALSE)>>,
            <<"color", JNull>> >>)

\* { id: "a", title: "A", content: "", createdAt: 1, updatedAt: 1,
\*   pinned: false, color: null }: a second object with the id of StoredA
StoredA2 ==
    JObj(<< <<"id", JStr(<<97>>)>>, <<"title", JStr(<<65>>)>>,
            <<"content", JStr(<<>>)>>, <<"createdAt", JNum(1)>>,
            <<"updatedAt", JNum(1)>>, <<"pinned", JBool(FALSE)>>,
            <<"color", JNull>> >>)

\* what localStorage may hold when the page opens: nothing, '', a text that
\* is no JSON, {} and 1 (JSON, no array), [], [null], [1], [{}], arrays of
\* two and of three notes, and an array of two objects with one id
StoredValues ==
    {NoItem, EmptyText, GarbageText,
     JsonText(JObj(<<>>)), JsonText(JNum(1)),
     JsonText(JArr(<<>>)), JsonText(JArr(<<JNull>>)),
     JsonText(JArr(<<JNum(1)>>)), JsonText(JArr(<<JObj(<<>>)>>)),
     JsonText(JArr(<<StoredA, StoredB>>)),
     JsonText(JArr(<<StoredC, StoredA, StoredD>>)),
     JsonText(JArr(<<StoredA, StoredA2>>))}

\* Date.now() when the page opens: the latest stamp of the stored notes
StartTime ==
    LET stamps == {d.members[i][2].n :
                      d \in {StoredA, StoredA2, StoredB, StoredC, StoredD},
                      i \in 4..5}
    IN  CHOOSE t \in stamps : \A u \in stamps : u <= t

\* the milliseconds that may pass from one reading of Date.now() to the next
Elapsed == {0, 1}

\* the titles and contents typed into the editor: "b", " A" ; "", "a"
TitleInputs == {<<98>>, <<32, 65>>}
ContentInputs == {<<>>, <<97>>}

\* the search box: '', "a", " ", " A"
QueryInputs == {<<>>, <<97>>, <<32>>, <<32, 65>>}

\* the palette of the markup (one of its five colours, '#FFF9C4', written
\* "c") and the 'no colour' button
ColorInputs == {Null, Str(<<99>>)}

\* an id no note carries: "z"
GhostId == Str(<<122>>)

SortModes == {"updated", "created", "alpha"}

\* n.id of the rendered list items, which on:click hands to selectNote
renderedIds == {Get(filtered[i], "id") : i \in 1..Len(filtered)}

\* the ids togglePin may be called with: none (undefined), the id of a note
\* of the collection, or an id no note carries
pinArgs == {Undefined, GhostId} \cup {Get(notes[i], "id") : i \in 1..Len(notes)}

-----------------------------------------------------------------------------
(* The component *)

Observed(op, arg, idx, writes, threw) ==
    [op |-> op, arg |-> arg, idx |-> idx, setItems |-> writes, threw |-> threw,
     before |-> notes]

\* the component state of a tab: what its script declares, and the view
\* and the observation that go with it
Session(sid, ph, items, sel, q, mode, pinnedOnly, view, obs) ==
    [sid |-> sid, phase |-> ph, notes |-> items, selectedId |-> sel,
     query |-> q, sortBy |-> mode, showPinnedOnly |-> pinnedOnly,
     filtered |-> view, last |-> obs]

\* there is no other tab
NoSession ==
    Session(0, "absent", <<>>, Null, Str(<<>>), "updated", FALSE, <<>>,
            [op |-> "none"])

\* onStorage with a slip: a 'storage' listener that reloads the collection
\* when another tab has written
reloadOnStorage(session, stored) ==
    IF session.phase = "ready"
    THEN [session EXCEPT !.notes = loadNotes(TRUE, stored)]
    ELSE session

\* what a write of another tab does to a tab: the script registers no
\* 'storage' listener, so nothing
onStorage(session, stored) == session

Init ==
    /\ browser \in BOOLEAN
    /\ phase = "unmounted"
    /\ storage \in StoredValues
    /\ notes = <<>>
    /\ selectedId = Null
    /\ query = Str(<<>>)
    /\ sortBy = "updated"
    /\ showPinnedOnly = FALSE
    /\ filtered = <<>>
    /\ now = StartTime
    /\ nextId = 1
    /\ events = 0
    /\ last = Observed("none", Undefined, -1, 0, FALSE)
    /\ peer = NoSession

\* savesWhen with a slip: the save statement reruns on every invalidation
savesWhenAnyDirty(notesDirty, viewDirty) == notesDirty \/ viewDirty

\* $: if (browser) saveNotes(notes) reruns when notes was assigned, and not
\* when only query or showPinnedOnly was
savesWhen(notesDirty, viewDirty) == notesDirty

\* The reactive statements that run after the script, or after a handler,
\* has assigned notes', selectedId', query', showPinnedOnly' and sortBy':
\*   $: if (browser) saveNotes(notes)   when notes was assigned
\*   $: filtered = sorted(notes.filter(...))
\*                  when notes, query or showPinnedOnly was assigned
\* stored and writes are the stored value and the setItem calls the handler
\* itself has made. An exception in them leaves the component crashed.
\* When something was written, the other tab gets what onStorage gives it.
Flush(op, arg, idx, stored, writes, notesDirty, viewDirty, phaseAfter) ==
    LET throws == /\ notesDirty \/ viewDirty
                  /\ filteredThrows(notes', query', showPinnedOnly')
        saves == savesWhen(notesDirty, viewDirty)
    IN  /\ storage' = IF saves THEN saveNotes(browser, stored, notes')
                      ELSE stored
        /\ IF ~(notesDirty \/ viewDirty)
           THEN filtered' = filtered /\ phase' = phaseAfter
           ELSE IF throws
           THEN filtered' = filtered /\ phase' = "crashed"
           ELSE /\ filtered' \in sorted(filterNotes(notes', query',
                                                    showPinnedOnly'), sortBy')
                /\ phase' = phaseAfter
        /\ last' = Observed(op, arg, idx,
                            writes + (IF saves THEN setItemCalls(browser)
                                      ELSE 0),
                            throws)
        /\ peer' = IF last'.setItems > 0 THEN onStorage(peer, storage')
                   ELSE peer

\* A handler that returns before it assigns anything
Return(op, arg, idx) ==
    /\ last' = Observed(op, arg, idx, 0, FALSE)
    /\ UNCHANGED <<browser, phase, storage, notes, selectedId, query, sortBy,
                   showPinnedOnly, filtered, now, nextId, peer>>

\* The instance script: let notes = loadNotes(); let selectedId = ...;
\* then every reactive statement once. notes[0].id raises a TypeError when
\* notes[0] is null.
Mount ==
    /\ phase = "unmounted"
    /\ notes' = loadNotes(browser, storage)
    /\ UNCHANGED <<browser, query, sortBy, showPinnedOnly, now, nextId, events>>
    /\ IF Len(notes') # 0 /\ GetThrows(notes'[1])
       THEN /\ phase' = "crashed"
            /\ last' = Observed("mount", Undefined, -1, 0, TRUE)
            /\ UNCHANGED <<storage, selectedId, filtered, peer>>
       ELSE /\ selectedId' = firstId(notes')
            /\ Flush("mount", Undefined, -1, storage, 0, TRUE, TRUE, "ready")

\* DOM events reach the handlers of a mounted component in a browser. After
\* an uncaught exception (phase "crashed") the component is followed no
\* further. The handlers read n.id of every element they visit; a null
\* element, on which that read would raise, occurs in the stored values of
\* the model only at index 0, where the instance script raises first.
Interactive ==
    /\ phase = "ready"
    /\ browser
    /\ events < MaxEvents
    /\ events' = events + 1

\* the values Date.now() may return: the clock does not go back
Times == {now + d : d \in Elapsed}

createNote(ts) ==
    /\ Interactive
    /\ now' = ts
    /\ LET note == newNote(randomUUID(nextId), ts)
       IN  /\ notes' = prepend(note, notes)
           /\ selectedId' = Get(note, "id")
    /\ nextId' = nextId + 1
    /\ UNCHANGED <<browser, query, sortBy, showPinnedOnly>>
    /\ Flush("createNote", Undefined, -1,
             saveNotes(browser, storage, notes'), setItemCalls(browser),
             TRUE, FALSE, phase)

updateSelected(partial, ts) ==
    /\ Interactive
    /\ IF ~Truthy(selectedId) THEN Return("updateSelected", Obj(partial), -1)
       ELSE /\ now' = ts
            /\ notes' = updateNotes(notes, selectedId, partial, ts)
            /\ UNCHANGED <<browser, selectedId, query, sortBy, showPinnedOnly,
                           nextId>>
            /\ Flush("updateSelected", Obj(partial), -1,
                     saveNotes(browser, storage, notes'),
                     setItemCalls(browser), TRUE, FALSE, phase)

onTitleInput(value, ts) == updateSelected([title |-> Str(value)], ts)

onContentInput(value, ts) == updateSelected([content |-> Str(value)], ts)

deleteSelected ==
    /\ Interactive
    /\ LET idx == findIndex(notes, selectedId)
       IN  IF ~Truthy(selectedId) THEN Return("deleteSelected", Undefined, -1)
           ELSE IF idx = -1 THEN Return("deleteSelected", Undefined, -1)
           ELSE /\ notes' = splice(notes, idx)
                /\ selectedId' = reselect(notes', idx)
                /\ UNCHANGED <<browser, query, sortBy, showPinnedOnly, now,
                               nextId>>
                /\ Flush("deleteSelected", Undefined, idx,
                         saveNotes(browser, storage, notes'),
                         setItemCalls(browser), TRUE, FALSE, phase)

selectNote(id) ==
    /\ Interactive
    /\ selectedId' = id
    /\ UNCHANGED <<browser, notes, query, sortBy, showPinnedOnly, now, nextId>>
    /\ Flush("selectNote", id, -1, storage, 0, FALSE, FALSE, phase)

togglePin(id, ts) ==
    /\ Interactive
    /\ LET targetId == pinTarget(id, selectedId)
       IN  IF ~Truthy(targetId) THEN Return("togglePin", id, -1)
           ELSE /\ now' = ts
                /\ notes' = pinNotes(notes, targetId, ts)
                /\ UNCHANGED <<browser, selectedId, query, sortBy,
                               showPinnedOnly, nextId>>
                /\ Flush("togglePin", id, -1,
                         saveNotes(browser, storage, notes'),
                         setItemCalls(browser), TRUE, FALSE, phase)

setColor(color, ts) ==
    /\ Interactive
    /\ IF ~Truthy(selectedId) THEN Return("setColor", color, -1)
       ELSE /\ now' = ts
            /\ notes' = colorNotes(notes, selectedId, color, ts)
            /\ UNCHANGED <<browser, selectedId, query, sortBy, showPinnedOnly,
                           nextId>>
            /\ Flush("setColor", color, -1,
                     saveNotes(browser, storage, notes'),
                     setItemCalls(browser), TRUE, FALSE, phase)

\* bind:value={query}
setQuery(q) ==
    /\ Interactive
    /\ query' = Str(q)
    /\ UNCHANGED <<browser, notes, selectedId, sortBy, showPinnedOnly, now,
                   nextId>>
    /\ Flush("setQuery", Str(q), -1, storage, 0, FALSE, TRUE, phase)

\* bind:checked={showPinnedOnly}
setShowPinnedOnly(b) ==
    /\ Interactive
    /\ showPinnedOnly' = b
    /\ UNCHANGED <<browser, notes, selectedId, query, sortBy, now, nextId>>
    /\ Flush("setShowPinnedOnly", Bool(b), -1, storage, 0, FALSE, TRUE, phase)

\* on:click={() => (sortBy = ...)}: sortBy is read inside sorted(), not in
\* the $: filtered statement, so the assignment does not recompute filtered
setSortBy(mode) ==
    /\ Interactive
    /\ sortBy' = mode
    /\ UNCHANGED <<browser, notes, selectedId, query, showPinnedOnly, now,
                   nextId>>
    /\ Flush("setSortBy", Undefined, -1, storage, 0, FALSE, FALSE, phase)

Next ==
    \/ Mount
    \/ \E ts \in Times : createNote(ts)
    \/ \E value \in TitleInputs, ts \in Times : onTitleInput(value, ts)
    \/ \E value \in ContentInputs, ts \in Times : onContentInput(value, ts)
    \/ deleteSelected
    \/ \E id \in renderedIds : selectNote(id)
    \/ \E id \in pinArgs, ts \in Times : togglePin(id, ts)
    \/ \E color \in ColorInputs, ts \in Times : setColor(color, ts)
    \/ \E q \in QueryInputs : setQuery(q)
    \/ \E b \in BOOLEAN : setShowPinnedOnly(b)
    \/ \E mode \in SortModes : setSortBy(mode)

Spec == Init /\ [][Next]_vars

-----------------------------------------------------------------------------
(* Two tabs on one localStorage *)

\* what the two tabs may find stored when the first of them opens: nothing,
\* or three notes
SharedStoredValues == {NoItem, JsonText(JArr(<<StoredC, StoredA, StoredD>>))}

\* the tab held in the component variables
thisSession ==
    Session(3 - peer.sid, phase, notes, selectedId, query, sortBy,
            showPinnedOnly, filtered, last)

\* two tabs of a browser, neither has run its script yet; the clock, the
\* id generator and localStorage are the browser's
InitTwoTabs ==
    /\ browser = TRUE
    /\ phase = "unmounted"
    /\ storage \in SharedStoredValues
    /\ notes = <<>>
    /\ selectedId = Null
    /\ query = Str(<<>>)
    /\ sortBy = "updated"
    /\ showPinnedOnly = FALSE
    /\ filtered = <<>>
    /\ now = StartTime
    /\ nextId = 1
    /\ events = 0
    /\ last = Observed("none", Undefined, -1, 0, FALSE)
    /\ peer = Session(2, "unmounted", <<>>, Null, Str(<<>>), "updated", FALSE,
                      <<>>, Observed("none", Undefined, -1, 0, FALSE))

\* the next event is the other tab's: between two handlers the event loop
\* may run either tab
SwitchTab ==
    /\ peer.phase # "absent"
    /\ peer' = thisSession
    /\ phase' = peer.phase
    /\ notes' = peer.notes
    /\ selectedId' = peer.selectedId
    /\ query' = peer.query
    /\ sortBy' = peer.sortBy
    /\ showPinnedOnly' = peer.showPinnedOnly
    /\ filtered' = peer.filtered
    /\ last' = peer.last
    /\ UNCHANGED <<browser, storage, now, nextId, events>>

\* Date.now() in the two-tab runs: a millisecond later at every reading
LaterTime == {now + d : d \in Elapsed \ {0}}

\* the mutations of either tab, selectNote to aim them, and the switch
NextTwoTabs ==
    \/ Mount
    \/ \E ts \in LaterTime : createNote(ts)
    \/ \E value \in TitleInputs, ts \in LaterTime : onTitleInput(value, ts)
    \/ deleteSelected
    \/ \E id \in renderedIds : selectNote(id)
    \/ \E ts \in LaterTime : togglePin(Undefined, ts)
    \/ \E color \in ColorInputs, ts \in LaterTime : setColor(color, ts)
    \/ SwitchTab

TwoTabs == InitTwoTabs /\ [][NextTwoTabs]_vars

-----------------------------------------------------------------------------
(* Properties *)

\* the handlers that mutate the collection
MutatingOps ==
    {"createNote", "updateSelected", "deleteSelected", "togglePin", "setColor"}

\* the ids carried by the notes of a collection
idsOf(items) == {Get(items[i], "id") : i \in 1..Len(items)}

\* C1: in a browser, once the component is mounted, and so after every
\* createNote, updateSelected, deleteSelected, togglePin and setColor,
\* loadNotes() on the stored value gives the in-memory collection: the same
\* notes with the same fields in the same order
C1_StoredEqualsMemory ==
    (browser /\ phase # "unmounted") => loadNotes(browser, storage) = notes

\* a mutation of a collection of two notes or more has returned, and the
\* collection it left holds a null colour, a false flag and an absent field
C1_Witness ==
    /\ browser
    /\ last.op \in MutatingOps
    /\ last.setItems > 0
    /\ Len(notes) >= 2
    /\ \E i \in 1..Len(notes) : Get(notes[i], "color") = Null
    /\ \E i \in 1..Len(notes) : IsNote(notes[i]) /\ ~Has(notes[i], "pinned")
    /\ loadNotes(browser, storage) = notes

\* an id is a value a note carries as its id: not undefined, not null
IsId(v) == ~IsNullish(v)

\* C2: selectedId is null or the id of a note of the collection
C2_SelectionNotDangling ==
    \/ selectedId = Null
    \/ IsId(selectedId) /\ \E i \in 1..Len(notes) : hasId(notes[i], selectedId)

\* there is a note, one that carries an id, at index i (from 0) of items
noteAt(items, i) == i >= 0 /\ i < Len(items) /\ IsId(Get(items[i + 1], "id"))

\* the selection the deletion rule names: the id of the note now at idx,
\* else of the note at idx - 1, else null
neighbourId(items, idx) ==
    IF noteAt(items, idx) THEN Get(items[idx + 1], "id")
    ELSE IF noteAt(items, idx - 1) THEN Get(items[idx], "id")
    ELSE Null

\* C3: after the selected note, at index idx, is deleted, selectedId is the
\* id of the note now at idx if there is one, else the id of the note at
\* idx - 1 if there is one, else null
C3_ClosestNeighbour ==
    (last.op = "deleteSelected" /\ last.idx >= 0)
        => selectedId = neighbourId(notes, last.idx)

\* [C, A, D] with A selected: A is deleted and D, which moved into its
\* slot, is selected
C3_Witness ==
    /\ last.op = "deleteSelected"
    /\ last.idx = 1
    /\ Len(notes) = 2
    /\ selectedId = Get(notes[2], "id")
    /\ IsId(selectedId)

\* C4: a mutating handler that changes the collection calls
\* localStorage.setItem exactly once
C4_ExactlyOneWrite ==
    [][(last'.op \in MutatingOps /\ notes' # notes) => last'.setItems = 1]_vars

\* the stored value is a JSON text of an array of Notes
IsNotesText(stored) ==
    /\ stored.kind = "json"
    /\ stored.doc.j = "array"
    /\ \A i \in 1..Len(stored.doc.items) :
          IsNote(ParseElement(stored.doc.items[i]))

\* C5: mounting on a stored value that is absent, is no JSON, is no array or
\* is an array that is no sequence of Notes gives the empty collection and
\* selectedId = null, and raises nothing
C5_CorruptLoadsEmpty ==
    [][(last'.op = "mount" /\ ~IsNotesText(storage))
          => (notes' = <<>> /\ selectedId' = Null /\ ~last'.threw)]_vars

\* n.pinned == true
isPinned(n) == Get(n, "pinned") = Bool(TRUE)

\* C6: in every sort mode the derived view lists every note with
\* pinned == true before every note that is not pinned, a note whose pinned
\* field is absent included
C6_PinnedFirst ==
    \A i, j \in 1..Len(filtered) :
        (isPinned(filtered[j]) /\ ~isPinned(filtered[i])) => j < i

\* C7: createNote adds exactly one note, at index 0, stamped createdAt =
\* updatedAt = the time it read, leaves the notes there were unchanged and
\* in their order, and selects the new note
C7_CreatePrepends ==
    [][last'.op = "createNote"
          => /\ Len(notes') = Len(notes) + 1
             /\ SubSeq(notes', 2, Len(notes')) = notes
             /\ Get(notes'[1], "createdAt") = Num(now')
             /\ Get(notes'[1], "updatedAt") = Num(now')
             /\ IsId(Get(notes'[1], "id"))
             /\ selectedId' = Get(notes'[1], "id")]_vars

\* a note was created in front of three others and is selected
C7_Witness ==
    /\ last.op = "createNote"
    /\ Len(notes) = 4
    /\ selectedId = Get(notes[1], "id")
    /\ Get(notes[1], "createdAt") = Get(notes[1], "updatedAt")
    /\ Get(notes[1], "createdAt") = Num(now)
    /\ now > StartTime

\* the fields of a fresh note other than its title
freshBody(n) ==
    /\ Get(n, "content") = Str(<<>>)
    /\ Get(n, "pinned") = Bool(FALSE)
    /\ Get(n, "color") = Null

\* C8 as stated: the note createNote makes has an empty title and an empty
\* content, pinned = false and color = null
C8_FreshNoteEmptyTitle ==
    last.op = "createNote"
        => Get(notes[1], "title") = Str(<<>>) /\ freshBody(notes[1])

\* C8 as amended: the note createNote makes has the title 'Untitled' and an
\* empty content, pinned = false and color = null
C8_FreshNoteUntitled ==
    last.op = "createNote"
        => Get(notes[1], "title") = Str(Untitled) /\ freshBody(notes[1])

\* createNote has returned and its note heads the collection
C8_Witness ==
    /\ last.op = "createNote"
    /\ selectedId = Get(notes[1], "id")
    /\ Get(notes[1], "title") = Str(Untitled)
    /\ Has(notes[1], "pinned") /\ Has(notes[1], "color")

\* the last handler was updateSelected({ title }) and it got past its guard
titleUpdated(obs) ==
    /\ obs.op = "updateSelected"
    /\ DOMAIN obs.arg.o = {"title"}
    /\ obs.setItems > 0

\* the fields an update of the title leaves alone
KeptFields == {"id", "content", "createdAt", "pinned", "color"}

aimedId(obs, sel) == IF obs.op = "togglePin" THEN Coalesce(obs.arg, sel) ELSE sel

\* C10: updateSelected, deleteSelected, togglePin and setColor aimed at an
\* id that no note of the collection carries change neither the collection
\* nor selectedId nor the stored value, and raise nothing
C10_AbsentIdNoOp ==
    [][(/\ last'.op \in {"updateSelected", "deleteSelected", "togglePin",
                         "setColor"}
        /\ aimedId(last', selectedId) \notin idsOf(notes))
          => /\ notes' = notes
             /\ selectedId' = selectedId
             /\ storage' = storage
             /\ ~last'.threw]_vars

\* togglePin was called with an id no note carries, while a note is
\* selected, and has written the collection
C10_Witness ==
    /\ last.op = "togglePin"
    /\ last.arg = GhostId
    /\ last.setItems > 0
    /\ ~last.threw
    /\ selectedId # Null
    /\ Len(notes) >= 2

\* the ids of a collection, in its order
idSeq(items) == [i \in 1..Len(items) |-> Get(items[i], "id")]

\* no two notes of the collection carry one id
uniqueIds(items) ==
    \A i, j \in 1..Len(items) :
        (i # j /\ IsId(Get(items[i], "id")))
            => Get(items[i], "id") # Get(items[j], "id")

\* what a handler may do to the ids of the collection: updateSelected,
\* togglePin and setColor keep every id in its place, deleteSelected takes
\* one id out, createNote puts an id no note carries in front, and the
\* other handlers keep the collection
idsFixed(obs, before, after) ==
    CASE obs.op \in {"updateSelected", "togglePin", "setColor"} ->
            idSeq(after) = idSeq(before)
      [] obs.op = "createNote" ->
            /\ Tail(idSeq(after)) = idSeq(before)
            /\ Head(idSeq(after)) \notin idsOf(before)
      [] obs.op = "deleteSelected" /\ obs.idx >= 0 ->
            idSeq(after) = splice(idSeq(before), obs.idx)
      [] obs.op = "mount" -> TRUE
      [] OTHER -> after = before

\* C11: no two notes of the collection share an id in any state, and no
\* handler changes the id of a note or gives a new note an id that a note
\* of the collection carries
C11_IdsUniqueAndFixed ==
    /\ [](phase = "ready" => uniqueIds(notes))
    /\ [][idsFixed(last', notes, notes')]_vars

queryMatches(n, q) ==
    LET qq == Trim(ToLowerCase(q.s))
    IN  \/ Includes(ToLowerCase(Get(n, "title").s), qq)
        \/ Includes(ToLowerCase(Get(n, "content").s), qq)

\* the notes the derived view is to hold, in the order of the collection
wanted(items, q, pinnedOnly) ==
    LET Want(n) == queryMatches(n, q) /\ (pinnedOnly => isPinned(n))
    IN  SelectSeq(items, Want)

\* how many times n occurs in a list
occurrences(n, list) == Cardinality({i \in 1..Len(list) : list[i] = n})

\* C13: the derived view holds exactly the notes of the collection that
\* match the query and, when the pinned-only toggle is on, are pinned: each
\* of them once for each time it is in the collection, and no other note
C13_ViewIsFilter ==
    phase = "ready"
        => LET want == wanted(notes, query, showPinnedOnly)
           IN  /\ Len(filtered) = Len(want)
               /\ \A i \in 1..Len(want) :
                     occurrences(want[i], filtered) = occurrences(want[i], want)

\* the query " A" keeps a note titled "a" and a note titled "A" and drops
\* a note that has no a in its title or content
C13_Witness ==
    /\ phase = "ready"
    /\ query = Str(<<32, 65>>)
    /\ Len(filtered) >= 2
    /\ Len(filtered) < Len(notes)
    /\ \E i \in 1..Len(filtered) : Get(filtered[i], "title") = Str(<<97>>)
    /\ \E i \in 1..Len(filtered) : Get(filtered[i], "title") = Str(<<65>>)

\* the controls of the derived view
ViewOps == {"setQuery", "setShowPinnedOnly", "setSortBy"}

\* C14: changing the query, the sort mode or the pinned-only toggle, and
\* the computing of the derived view that follows, changes neither the
\* collection (its notes or their order) nor selectedId nor the stored
\* value, and calls localStorage.setItem not once; the view computed at
\* mount leaves the collection as it was loaded
C14_QueryingIsReadOnly ==
    [][/\ last'.op \in ViewOps
           => (/\ notes' = notes
               /\ selectedId' = selectedId
               /\ storage' = storage
               /\ last'.setItems = 0)
       /\ (last'.op = "mount" /\ ~last'.threw)
           => notes' = loadNotes(browser, storage)]_vars

\* a control was used on a collection of three; the view it left differs
\* from the collection, which is still what is stored
C14_Witness ==
    /\ last.op \in ViewOps
    /\ last.setItems = 0
    /\ Len(notes) = 3
    /\ filtered # notes
    /\ Len(filtered) > 0
    /\ selectedId # Null
    /\ loadNotes(browser, storage) = notes

\* C15: the instance script ends with selectedId the id of the element at
\* index 0 of the loaded collection, or null when the loaded collection is
\* empty
C15_StartupSelectsFirst ==
    [][last'.op = "mount"
          => /\ ~last'.threw
             /\ notes' = loadNotes(browser, storage)
             /\ selectedId' = (IF Len(notes') = 0 THEN Null
                               ELSE Get(notes'[1], "id"))]_vars

\* the first place of n in a list
placeOf(n, list) ==
    CHOOSE i \in 1..Len(list) :
        list[i] = n /\ \A j \in 1..(i - 1) : list[j] # n

\* a lower-cased title, for the comparison of titles without case
lowerTitle(n) == ToLowerCase(Get(n, "title").s)

\* a is not behind b by the second sort key of the mode: updatedAt
\* descending, createdAt descending, title ascending without case
keyBefore(a, b, mode) ==
    CASE mode = "updated" -> Get(a, "updatedAt").n > Get(b, "updatedAt").n
      [] mode = "created" -> Get(a, "createdAt").n > Get(b, "createdAt").n
      [] OTHER -> CollatorCompare(lowerTitle(a), lowerTitle(b)) < 0

keyTie(a, b, mode) == ~keyBefore(a, b, mode) /\ ~keyBefore(b, a, mode)

\* C16: of two notes of the derived view with the same pinned status, the
\* one shown first is the one before the other by the key of the sort mode
\* (updatedAt descending, createdAt descending, title ascending without
\* case) or, when they tie on it, the one that is first in the collection
C16_OrderedWithinPinGroups ==
    phase = "ready"
        => \A i, j \in 1..Len(filtered) :
              (/\ i < j
               /\ IsNote(filtered[i]) /\ IsNote(filtered[j])
               /\ isPinned(filtered[i]) = isPinned(filtered[j]))
                  => \/ keyBefore(filtered[i], filtered[j], sortBy)
                     \/ /\ keyTie(filtered[i], filtered[j], sortBy)
                        /\ placeOf(filtered[i], notes)
                              < placeOf(filtered[j], notes)

\* C17: a deleteSelected that finds its note removes exactly one note, one
\* whose id is selectedId: the collection is shorter by one, the notes in
\* front of the removed one stay in place and the notes behind it move up
\* by one, each unchanged
C17_DeleteRemovesOne ==
    [][(last'.op = "deleteSelected" /\ last'.idx >= 0)
          => LET at == last'.idx + 1
             IN  /\ at \in 1..Len(notes)
                 /\ hasId(notes[at], selectedId)
                 /\ Len(notes') = Len(notes) - 1
                 /\ \A i \in 1..(at - 1) : notes'[i] = notes[i]
                 /\ \A i \in at..Len(notes') : notes'[i] = notes[i + 1]]_vars

\* the middle note of [C, A, D] was deleted: C and D are left, in that
\* order, and are what is stored
C17_Witness ==
    /\ last.op = "deleteSelected"
    /\ last.idx = 1
    /\ idSeq(notes) = <<Str(<<99>>), Str(<<100>>)>>
    /\ loadNotes(browser, storage) = notes

\* whether a note counts as pinned: its pinned field as the code reads it,
\* an absent field reading as false
pinFlag(n) == Truthy(Get(n, "pinned"))

\* the fields togglePin leaves alone
UnpinnedFields == {"id", "title", "content", "createdAt", "color"}

\* after agrees with before in every field but pinned and updatedAt, an
\* absent field staying absent
sameButPin(before, after) ==
    \A k \in UnpinnedFields :
        Has(after, k) = Has(before, k) /\ Get(after, k) = Get(before, k)

\* togglePin got past its guard
toggled(obs) == obs.op = "togglePin" /\ obs.setItems > 0

\* C18: togglePin turns the pinned flag of the note with the id it is
\* given (of the selected note when it is given none) into its opposite and
\* leaves that note's other fields but updatedAt, and every other note, as
\* they were; a second togglePin on the same id, straight after the first,
\* leaves each such note with the pinned value it had before the first
\* (false for a note that came without the field)
C18_TogglePinFlipsAndRestores ==
    [][toggled(last')
          => LET target == aimedId(last', selectedId)
             IN  /\ Len(notes') = Len(notes)
                 /\ \A i \in 1..Len(notes) :
                       IF hasId(notes[i], target)
                       THEN /\ Get(notes'[i], "pinned")
                                  = Bool(~pinFlag(notes[i]))
                            /\ sameButPin(notes[i], notes'[i])
                       ELSE notes'[i] = notes[i]
                 /\ (toggled(last) /\ aimedId(last, selectedId) = target)
                       => \A i \in 1..Len(notes) :
                             IF hasId(last.before[i], target)
                             THEN /\ Get(notes'[i], "pinned")
                                        = Bool(pinFlag(last.before[i]))
                                  /\ sameButPin(last.before[i], notes'[i])
                             ELSE notes'[i] = last.before[i]]_vars

\* the stored note A (title "b", pinned) was unpinned by one togglePin and
\* pinned again by the next
C18_Witness ==
    /\ toggled(last)
    /\ \E i \in 1..Len(notes) :
          /\ Get(notes[i], "title") = Str(<<98>>)
          /\ hasId(notes[i], aimedId(last, selectedId))
          /\ Get(last.before[i], "pinned") = Bool(FALSE)
          /\ Get(notes[i], "pinned") = Bool(TRUE)
          /\ Get(notes[i], "updatedAt") = Num(now)

\* the handlers that rewrite notes in place
EditOps == {"updateSelected", "togglePin", "setColor"}

\* the handlers that assign selectedId; the instance script initialises it
SelectingOps == {"createNote", "selectNote", "deleteSelected", "mount"}

\* C20: updateSelected, togglePin and setColor leave the collection with
\* the same length and the same notes, by id, at the same places, and leave
\* selectedId as it was; once initialised, selectedId changes only in
\* createNote, selectNote and deleteSelected
C20_EditsKeepShapeAndSelection ==
    [][/\ last'.op \in EditOps
           => (/\ Len(notes') = Len(notes)
               /\ \A i \in 1..Len(notes) :
                     \/ notes'[i] = notes[i]
                     \/ Get(notes'[i], "id") = Get(notes[i], "id")
               /\ selectedId' = selectedId)
       /\ selectedId' # selectedId => last'.op \in SelectingOps]_vars

\* the selected note, the last of several, was edited: the collection
\* changed and the selection still points at its last place
C20_Witness ==
    /\ last.op \in EditOps
    /\ last.setItems > 0
    /\ notes # last.before
    /\ Len(notes) >= 2
    /\ IsId(selectedId)
    /\ hasId(notes[Len(notes)], selectedId)
    /\ ~hasId(notes[1], selectedId)

\* the elements of a collection
elements(items) == {items[i] : i \in 1..Len(items)}

\* a handler of the tab in the component variables has run and has written
wrote(obs, peerBefore, peerAfter) ==
    peerAfter.sid = peerBefore.sid /\ obs.setItems > 0

\* C19: with two tabs on one storage key, the stored value changes only
\* when a tab writes; after a tab has written, whatever the two tabs did
\* before, the stored value is that tab's collection, the collection of the
\* other tab is as it was, and the notes of the other tab that the writer
\* does not hold are not in the stored value
C19_LastWriterWins ==
    [][/\ storage' # storage => wrote(last', peer, peer')
       /\ wrote(last', peer, peer')
           => (/\ loadNotes(browser, storage') = notes'
               /\ peer'.notes = peer.notes
               /\ \A n \in elements(peer.notes) \ elements(notes') :
                     n \notin elements(loadNotes(browser, storage')))]_vars

\* both tabs are open, the other tab holds a note it created, and this tab,
\* which never loaded that note, has mutated its collection and written:
\* the stored value is this tab's collection and the other tab's note is
\* not in it
C19_Witness ==
    /\ peer.phase = "ready"
    /\ phase = "ready"
    /\ last.op \in MutatingOps
    /\ last.setItems > 0
    /\ loadNotes(browser, storage) = notes
    /\ \E n \in elements(peer.notes) :
          /\ Get(n, "id") = randomUUID(1)
          /\ n \notin elements(loadNotes(browser, storage))
    /\ peer.notes # notes

\* the stored value is the JSON text of an array
IsArrayText(stored) == stored.kind = "json" /\ stored.doc.j = "array"

\* C21: in a browser the instance script, which runs before any handler,
\* writes the collection it loaded back to localStorage; a stored value
\* that was absent, no JSON or no array is thereby replaced by '[]'; and
\* once the script has run the stored value is always the text of an array
C21_StartupWritesBack ==
    /\ [][(last'.op = "mount" /\ browser)
             => /\ last'.setItems >= 1
                /\ storage' = JsonText(JSONstringify(notes'))
                /\ ~IsArrayText(storage)
                      => storage' = JsonText(JArr(<<>>))]_vars
    /\ []((browser /\ phase # "unmounted") => IsArrayText(storage))

=============================================================================
